---- MODULE Spec2Model ----
(***************************************************************************)
(* Model of flask_declarative/tables.py: a declarative DataTables backend. *)
(* A Table instance is built from flask.request.args (Table.__init__):     *)
(* parse_request normalises the query-string keys, one Column object is    *)
(* built per declared column type, build_query folds the column filters,   *)
(* the global search and the ordering onto the base query, and the rows    *)
(* are fetched through offset/limit.  Table.json() renders the envelope.   *)
(*                                                                         *)
(* Strings that the code takes apart (search values, numbers, flags) are   *)
(* sequences of one-character strings.  request.args is a function from    *)
(* the keys that are present to their string values.  The SQLAlchemy       *)
(* expression language and the database are modelled by what they do with  *)
(* the expressions this file builds: a clause list without clauses renders *)
(* to nothing and is left out of its parent and of WHERE; NULL in a        *)
(* comparison never passes WHERE.                                          *)
(***************************************************************************)
EXTENDS Integers, Sequences, FiniteSets, TLC

VARIABLES
    column_types,   \* TableMeta's column_types of the table class: <<[name, type]>>
    dbrows,         \* rows the base query (Table.query) selects, in storage order
    args,           \* flask.request.args of the request being served
    status,         \* "idle" | "ready" (Table.__init__ returned) | "raised" | "sent"
    parsed,         \* the tuple parse_request returned
    columns,        \* self.columns: one Column instance per declared column type
    query,          \* the query build_query returned
    total,          \* self.total
    matching,       \* self.matching
    rows,           \* self.rows
    response        \* what json() returned

vars == <<column_types, dbrows, args, status, parsed, columns, query,
          total, matching, rows, response>>

(***************************************************************************)
(* Bounds of the model.                                                    *)
(***************************************************************************)
MaxCols == 2        \* declared columns per table: 0 .. MaxCols
MaxOrder == 2       \* order[i][...] keys a request may carry: i in 0 .. MaxOrder-1
MaxRows == 3        \* rows of the base query

(***************************************************************************)
(* Strings.                                                                *)
(***************************************************************************)
sTrue == <<"t", "r", "u", "e">>
sFalse == <<"f", "a", "l", "s", "e">>
sYes == <<"y", "e", "s">>
sAsc == <<"a", "s", "c">>
sDesc == <<"d", "e", "s", "c">>
sUp == <<"u", "p">>
sEmpty == <<>>

Digits == <<"0", "1", "2", "3", "4", "5", "6", "7", "8", "9">>

IsDigit(c) == \E d \in 1..Len(Digits) : Digits[d] = c

DigitValue(c) == (CHOOSE d \in 1..Len(Digits) : Digits[d] = c) - 1

\* \s of Python's re and the characters str.strip() / int() skip.
IsSpace(c) == c \in {" ", "\t", "\n", "\r"}

RECURSIVE LStrip(_)
LStrip(s) == IF s # <<>> /\ IsSpace(Head(s)) THEN LStrip(Tail(s)) ELSE s

RECURSIVE RStrip(_)
RStrip(s) ==
    IF s # <<>> /\ IsSpace(s[Len(s)]) THEN RStrip(SubSeq(s, 1, Len(s) - 1)) ELSE s

RECURSIVE DigitsValue(_, _)
DigitsValue(s, acc) ==
    IF s = <<>> THEN acc ELSE DigitsValue(Tail(s), 10 * acc + DigitValue(Head(s)))

\* The part of s that must be all digits for int(s) to succeed.
IntBody(s) ==
    LET t == RStrip(LStrip(s))
    IN  IF t # <<>> /\ Head(t) \in {"+", "-"} THEN Tail(t) ELSE t

\* int(s) does not raise ValueError.
IsIntStr(s) ==
    /\ IntBody(s) # <<>>
    /\ \A i \in 1..Len(IntBody(s)) : IsDigit(IntBody(s)[i])

\* int(s), for IsIntStr(s).
IntOf(s) ==
    LET t == RStrip(LStrip(s))
        v == DigitsValue(IntBody(s), 0)
    IN  IF Head(t) = "-" THEN 0 - v ELSE v

\* re.findall(r'\S+', value): the maximal runs of non-whitespace, left to right.
RECURSIVE findall_S(_, _, _)
findall_S(value, cur, out) ==
    IF value = <<>>
    THEN IF cur = <<>> THEN out ELSE Append(out, cur)
    ELSE IF IsSpace(Head(value))
         THEN findall_S(Tail(value), <<>>, IF cur = <<>> THEN out ELSE Append(out, cur))
         ELSE findall_S(Tail(value), Append(cur, Head(value)), out)

Tokens(value) == findall_S(value, <<>>, <<>>)

\* '%{}%'.format(keyword)
LikePattern(keyword) == <<"%">> \o keyword \o <<"%">>

\* Case folding of ILIKE, on the letters the model's strings use.
LowerChar(c) ==
    CASE c = "A" -> "a"
      [] c = "B" -> "b"
      [] OTHER -> c

Lower(s) == [i \in 1..Len(s) |-> LowerChar(s[i])]

\* SQL LIKE: % is any run of characters, _ any one character.
RECURSIVE LikeMatch(_, _)
LikeMatch(p, s) ==
    IF p = <<>> THEN s = <<>>
    ELSE IF Head(p) = "%"
         THEN LikeMatch(Tail(p), s) \/ (s # <<>> /\ LikeMatch(p, Tail(s)))
         ELSE /\ s # <<>>
              /\ (Head(p) = "_" \/ Head(p) = Head(s))
              /\ LikeMatch(Tail(p), Tail(s))

ILikeMatch(p, s) == LikeMatch(Lower(p), Lower(s))

\* The regular expressions the model's requests use: literal characters, '.',
\* and a leading '^'.  PostgreSQL's ~ is case sensitive and unanchored.
RegexAt(p, s) ==
    /\ Len(p) <= Len(s)
    /\ \A i \in 1..Len(p) : p[i] = "." \/ p[i] = s[i]

RegexMatch(p, s) ==
    IF p # <<>> /\ Head(p) = "^"
    THEN RegexAt(Tail(p), s)
    ELSE \E k \in 0..Len(s) : RegexAt(p, SubSeq(s, k + 1, Len(s)))

(***************************************************************************)
(* The SQLAlchemy expressions the file builds.  One record shape for all:  *)
(* op is "and" / "or" (a clause list), "ilike", "~" or "=".                *)
(***************************************************************************)
Clause(op, col, text, num, clauses) ==
    [op |-> op, col |-> col, text |-> text, num |-> num, clauses |-> clauses]

\* or_(*clauses) and and_(*clauses) keep their arguments as given; that
\* SQLAlchemy hands back the only argument of a one-argument call unwrapped
\* changes nothing of what the clause renders to.
or_(clauses) == Clause("or", "", <<>>, 0, clauses)

and_(clauses) == Clause("and", "", <<>>, 0, clauses)

ilike(col, pattern) == Clause("ilike", col, pattern, 0, <<>>)

op_regex(col, pattern) == Clause("~", col, pattern, 0, <<>>)

eq(col, num) == Clause("=", col, <<>>, num, <<>>)

\* The clause compiles to some SQL text: a clause list whose clauses all compile
\* to nothing compiles to nothing, and the compiler leaves it out of its parent.
RECURSIVE Renders(_)
Renders(p) ==
    IF p.op \in {"and", "or"}
    THEN \E i \in 1..Len(p.clauses) : Renders(p.clauses[i])
    ELSE TRUE

(***************************************************************************)
(* The database.  A cell is NULL, a number or a text; a row maps the       *)
(* column names to cells.                                                  *)
(***************************************************************************)
Null == [null |-> TRUE, num |-> 0, text |-> <<>>]

Num(n) == [null |-> FALSE, num |-> n, text |-> <<>>]

Text(t) == [null |-> FALSE, num |-> 0, text |-> t]

\* The value of a rendered clause on a row, NULL counted as not true.
RECURSIVE Holds(_, _)
Holds(p, row) ==
    CASE p.op = "and" ->
            \A i \in 1..Len(p.clauses) :
                Renders(p.clauses[i]) => Holds(p.clauses[i], row)
      [] p.op = "or" ->
            \E i \in 1..Len(p.clauses) :
                Renders(p.clauses[i]) /\ Holds(p.clauses[i], row)
      [] p.op = "ilike" -> ~row[p.col].null /\ ILikeMatch(p.text, row[p.col].text)
      [] p.op = "~" -> ~row[p.col].null /\ RegexMatch(p.text, row[p.col].text)
      [] p.op = "=" -> ~row[p.col].null /\ row[p.col].num = p.num

\* A criterion of WHERE lets the row through.
Passes(p, row) == Renders(p) => Holds(p, row)

\* Byte order of the characters of the stored texts ("C" collation).
Collation == <<" ", "1", "2", "A", "B", "^", "a", "b">>

CharRank(c) == CHOOSE i \in 1..Len(Collation) : Collation[i] = c

RECURSIVE TextLess(_, _)
TextLess(s, t) ==
    IF t = <<>> THEN FALSE
    ELSE IF s = <<>> THEN TRUE
    ELSE IF Head(s) = Head(t) THEN TextLess(Tail(s), Tail(t))
    ELSE CharRank(Head(s)) < CharRank(Head(t))

\* a sorts before b ascending; NULL sorts after every value (PostgreSQL).
CellLess(a, b) ==
    IF a.null THEN FALSE
    ELSE IF b.null THEN TRUE
    ELSE a.num < b.num \/ (a.num = b.num /\ TextLess(a.text, b.text))

\* r1 sorts strictly before r2 under the ORDER BY keys.
RECURSIVE RowBefore(_, _, _)
RowBefore(r1, r2, keys) ==
    IF keys = <<>> THEN FALSE
    ELSE LET k == Head(keys)
             a == r1[k.col]
             b == r2[k.col]
             lt == IF k.dir = "asc" THEN CellLess(a, b) ELSE CellLess(b, a)
             gt == IF k.dir = "asc" THEN CellLess(b, a) ELSE CellLess(a, b)
         IN  lt \/ (~gt /\ RowBefore(r1, r2, Tail(keys)))

\* Insert r behind the rows that do not sort after it (a stable sort).
RECURSIVE InsertRow(_, _, _)
InsertRow(r, sorted, keys) ==
    IF sorted = <<>> THEN <<r>>
    ELSE IF RowBefore(r, Head(sorted), keys)
         THEN <<r>> \o sorted
         ELSE <<Head(sorted)>> \o InsertRow(r, Tail(sorted), keys)

RECURSIVE SortRows(_, _, _)
SortRows(rs, keys, acc) ==
    IF rs = <<>> THEN acc ELSE SortRows(Tail(rs), keys, InsertRow(Head(rs), acc, keys))

(***************************************************************************)
(* Queries: the base query with the criteria, ordering and window folded   *)
(* onto it.                                                                *)
(***************************************************************************)
BaseQuery ==
    [where |-> <<>>, order_by |-> <<>>, offset |-> 0, limited |-> FALSE, limit |-> 0]

Query_filter(q, criterion) == [q EXCEPT !.where = Append(@, criterion)]

Query_order_by(q, keys) == [q EXCEPT !.order_by = @ \o keys]

Query_offset(q, n) == [q EXCEPT !.offset = n]

Query_limit(q, n) == [q EXCEPT !.limited = TRUE, !.limit = n]

Selected(q, row) == \A i \in 1..Len(q.where) : Passes(q.where[i], row)

Min(a, b) == IF a < b THEN a ELSE b

\* Query.all(): WHERE, then ORDER BY, then OFFSET, then LIMIT.
Query_all(q, base) ==
    LET sel == SelectSeq(base, LAMBDA r : Selected(q, r))
        ord == SortRows(sel, q.order_by, <<>>)
        off == SubSeq(ord, q.offset + 1, Len(ord))
    IN  IF q.limited THEN SubSeq(off, 1, Min(q.limit, Len(off))) ELSE off

Query_count(q, base) == Len(Query_all(q, base))

(***************************************************************************)
(* flask.request.args                                                      *)
(***************************************************************************)
\* 'columns[{}][searchable]'.format(i) and the like: a key is its template
\* and the index formatted into it; a key without index is its name alone.
Format(template, i) == <<template, i>>

Key(name) == <<name>>

\* request.args.get(key, default)
Get(a, key, default) == IF key \in DOMAIN a THEN a[key] ELSE default

\* request.args.get(key, default, type=int): the default too when int() raises.
GetInt(a, key, default) ==
    IF key \in DOMAIN a /\ IsIntStr(a[key]) THEN IntOf(a[key]) ELSE default

boolean(val) == val = sTrue

\* request.args.get(key, default, type=boolean)
GetBool(a, key, default) == IF key \in DOMAIN a THEN boolean(a[key]) ELSE default

(***************************************************************************)
(* Columns                                                                 *)
(***************************************************************************)
ColumnClasses == {"Column", "TextColumn", "NumericColumn"}

\* Column.__init__
NewColumn(Col, options) ==
    [name |-> Col.name, label |-> Col.label, type |-> Col.type,
     searchable |-> options.searchable, orderable |-> options.orderable,
     filter_value |-> options.value, filter_regex |-> options.regex]

Column_search(self, keyword, regex) == or_(<<>>)

TextColumn_search(self, keyword, regex) ==
    IF regex THEN op_regex(self.name, keyword)
    ELSE ilike(self.name, LikePattern(keyword))

\* The backing column is an Integer column: python_type is int.
NumericColumn_search(self, keyword, regex) ==
    IF IsIntStr(keyword) THEN eq(self.name, IntOf(keyword)) ELSE or_(<<>>)

search(self, keyword, regex) ==
    CASE self.type = "TextColumn" -> TextColumn_search(self, keyword, regex)
      [] self.type = "NumericColumn" -> NumericColumn_search(self, keyword, regex)
      [] OTHER -> Column_search(self, keyword, regex)

filter(self) == search(self, self.filter_value, self.filter_regex)

Column_order(self, direction) == <<>>

\* Variant: every direction but 'asc' orders descending.
SingleColumn_order_else_desc(self, direction) ==
    IF direction = sAsc THEN <<[col |-> self.name, dir |-> "asc"]>>
    ELSE <<[col |-> self.name, dir |-> "desc"]>>

SingleColumn_order(self, direction) ==
    IF direction = sAsc THEN <<[col |-> self.name, dir |-> "asc"]>>
    ELSE IF direction = sDesc THEN <<[col |-> self.name, dir |-> "desc"]>>
    ELSE <<>>

order(self, direction) ==
    IF self.type \in {"TextColumn", "NumericColumn"}
    THEN SingleColumn_order(self, direction)
    ELSE Column_order(self, direction)

extract(self, row) == row[self.name]

(***************************************************************************)
(* Table.parse_request                                                     *)
(***************************************************************************)
DefaultStart == 0
DefaultLength == 50

\* The dict appended to `columns` for position i (0-based).  Its 'data' and
\* 'name' entries are read by nothing and are left out.
ColumnOptions(a, i, value, regex) ==
    [searchable |-> GetBool(a, Format("columns[{}][searchable]", i), TRUE),
     orderable |-> GetBool(a, Format("columns[{}][orderable]", i), TRUE),
     value |-> value,
     regex |-> regex]

\* The second loop, from position i on.
RECURSIVE ParseOrder(_, _, _, _)
ParseOrder(a, types, i, out) ==
    IF i >= Len(types) THEN out
    ELSE IF Format("order[{}][column]", i) \notin DOMAIN a THEN out
    ELSE LET column == GetInt(a, Format("order[{}][column]", i), 0)
             direction == Get(a, Format("order[{}][dir]", i), sAsc)
         IN  IF column >= Len(types) \/ column < 0
             THEN ParseOrder(a, types, i + 1, out)
             ELSE ParseOrder(a, types, i + 1,
                             Append(out, <<types[column + 1].name, direction>>))

\* search_value and search_regex are assigned in the body of the first loop
\* only: with no declared column the return statement raises UnboundLocalError.
parse_request_raises(types) == Len(types) = 0

\* search_regex defaults to '' (not False); it is falsy, and a flag is only
\* ever tested for truth.
parse_request(a, types) ==
    LET n == Len(types)
        value == Get(a, Key("search[value]"), sEmpty)
        regex == GetBool(a, Key("search[regex]"), FALSE)
        search_value == Get(a, Format("columns[{}][search][value]", n - 1), sEmpty)
        search_regex == GetBool(a, Format("columns[{}][search][regex]", n - 1), FALSE)
    IN  [start |-> GetInt(a, Key("start"), DefaultStart),
         length |-> GetInt(a, Key("length"), DefaultLength),
         value |-> search_value,
         regex |-> search_regex,
         columns |-> [i \in 1..n |-> ColumnOptions(a, i - 1, value, regex)],
         order |-> ParseOrder(a, types, 0, <<>>)]

(***************************************************************************)
(* Table.build_query                                                       *)
(***************************************************************************)
\* self.columns[name]
ColumnNamed(cols, name) == cols[CHOOSE i \in 1..Len(cols) : cols[i].name = name]

ColumnFilters(cols) == and_([i \in 1..Len(cols) |-> filter(cols[i])])

\* Variant: the regex flag is handed to each column's search().
TermSearch_with_regex(cols, term, regex) ==
    LET s == SelectSeq(cols, LAMBDA c : c.searchable)
    IN  or_([i \in 1..Len(s) |-> search(s[i], term, regex)])

\* `maybe` of one term: regex is not passed on, search()'s default applies.
TermSearch(cols, term, regex) ==
    LET s == SelectSeq(cols, LAMBDA c : c.searchable)
    IN  or_([i \in 1..Len(s) |-> search(s[i], term, FALSE)])

GlobalSearch(cols, value, regex) ==
    LET ts == Tokens(value)
    IN  and_([t \in 1..Len(ts) |-> TermSearch(cols, ts[t], regex)])

RECURSIVE Ordering(_, _)
Ordering(cols, ord) ==
    IF ord = <<>> THEN <<>>
    ELSE LET c == ColumnNamed(cols, Head(ord)[1])
         IN  (IF c.orderable THEN order(c, Head(ord)[2]) ELSE <<>>)
             \o Ordering(cols, Tail(ord))

build_query(cols, ord, value, regex) ==
    Query_order_by(
        Query_filter(Query_filter(BaseQuery, ColumnFilters(cols)),
                     GlobalSearch(cols, value, regex)),
        Ordering(cols, ord))

(***************************************************************************)
(* Table.__init__ and Table.json                                           *)
(***************************************************************************)
\* for i, (name, Col) in enumerate(self.column_types.items())
NewColumns(types, p) == [i \in 1..Len(types) |-> NewColumn(types[i], p.columns[i])]

\* self.total = self.query.count()
Total(base) == Query_count(BaseQuery, base)

\* Variant: start is taken for a page number.
Rows_by_page(q, start, length, base) ==
    Query_all(Query_limit(Query_offset(q, start * length), length), base)

\* self.rows = query.offset(start).limit(length).all()
Rows(q, start, length, base) ==
    Query_all(Query_limit(Query_offset(q, start), length), base)

\* Variant: the rows of the page are counted.
Matching_of_page(q, start, length, base) == Len(Rows(q, start, length, base))

\* self.matching = query.count()
Matching(q, start, length, base) == Query_count(q, base)

Unset == <<>>

TableInit(a) ==
    /\ status = "idle"
    /\ args' = a
    /\ IF parse_request_raises(column_types)
       THEN /\ status' = "raised"
            /\ UNCHANGED <<parsed, columns, query, total, matching, rows>>
       ELSE LET p == parse_request(a, column_types)
                cols == NewColumns(column_types, p)
                q == build_query(cols, p.order, p.value, p.regex)
            IN  /\ parsed' = p
                /\ columns' = cols
                /\ total' = Total(dbrows)
                /\ query' = q
                /\ matching' = Matching(q, p.start, p.length, dbrows)
                /\ rows' = Rows(q, p.start, p.length, dbrows)
                /\ status' = "ready"
    /\ UNCHANGED <<column_types, dbrows, response>>

DefaultDraw == 0

Envelope(a, cols, rs, tot, match) ==
    [draw |-> GetInt(a, Key("draw"), DefaultDraw),
     recordsTotal |-> tot,
     recordsFiltered |-> match,
     data |-> [r \in 1..Len(rs) |-> [c \in 1..Len(cols) |-> extract(cols[c], rs[r])]],
     columns |-> [c \in 1..Len(cols) |-> [name |-> cols[c].name, label |-> cols[c].label]]]

json ==
    /\ status = "ready"
    /\ response' = Envelope(args, columns, rows, total, matching)
    /\ status' = "sent"
    /\ UNCHANGED <<column_types, dbrows, args, parsed, columns, query,
                   total, matching, rows>>

(***************************************************************************)
(* The tables, the stored rows and the requests of the model.              *)
(***************************************************************************)
ColumnNames == <<"id", "name", "roles", "email">>

\* What TableMeta.__new__ leaves in column_types: the classes in declaration
\* order, each with its name and, no label being given, the name as label.
Tables ==
    UNION {{[i \in 1..n |-> [name |-> ColumnNames[i], label |-> ColumnNames[i],
                             type |-> t[i]]] : t \in [1..n -> ColumnClasses]}
           : n \in 0..MaxCols}

TextData(k) ==
    CASE k % 3 = 1 -> Text(<<"A", "b">>)
      [] k % 3 = 2 -> Text(<<"b", "a", "1">>)
      [] OTHER -> Null

NumData(k) ==
    CASE k % 4 = 1 -> Num(1)
      [] k % 4 = 2 -> Num(2)
      [] k % 4 = 3 -> Null
      [] OTHER -> Num(1)

CellData(type, k) == IF type = "NumericColumn" THEN NumData(k) ELSE TextData(k)

IndexOf(types, name) == CHOOSE i \in 1..Len(types) : types[i].name = name

StoredRows(types) ==
    [r \in 1..MaxRows |->
        [nm \in {types[i].name : i \in 1..Len(types)} |->
            CellData(types[IndexOf(types, nm)].type, r + IndexOf(types, nm) - 1)]]

Absent == <<"<absent>">>

ColumnTemplates ==
    {"columns[{}][searchable]", "columns[{}][orderable]",
     "columns[{}][search][value]", "columns[{}][search][regex]"}

OrderTemplates == {"order[{}][column]", "order[{}][dir]"}

\* The keys a slice ranges over: one per column position for a column
\* template, one per order position for an order template.
KeysOf(slice, n) ==
    UNION {IF nm \in ColumnTemplates THEN {Format(nm, i) : i \in 0..(n - 1)}
           ELSE IF nm \in OrderTemplates THEN {Format(nm, i) : i \in 0..(MaxOrder - 1)}
           ELSE {Key(nm)}
           : nm \in DOMAIN slice}

With(f, k, v) == IF v = Absent THEN f ELSE (k :> v) @@ f

\* Every args that gives each key one of its slice's values, or leaves it out.
RECURSIVE ArgsOver(_, _)
ArgsOver(keys, slice) ==
    IF keys = {} THEN {<<>>}
    ELSE LET k == CHOOSE x \in keys : TRUE
         IN  {With(f, k, v) : f \in ArgsOver(keys \ {k}, slice), v \in slice[k[1]]}

sA == <<"a">>
sA1 == <<" ", "a", " ", " ", "1", " ">>
sCaretA == <<"^", "A">>
s0 == <<"0">>
s1 == <<"1">>
s2 == <<"2">>
s7 == <<"7">>
s9 == <<"9">>
sNeg1 == <<"-", "1">>
sX == <<"x">>

SearchSlice ==
    ("search[value]" :> {Absent, sA, s1})
    @@ ("search[regex]" :> {Absent, sTrue})
    @@ ("columns[{}][search][value]" :> {Absent, sA1, sCaretA})
    @@ ("columns[{}][search][regex]" :> {Absent, sTrue})

SearchableSlice ==
    ("columns[{}][searchable]" :> {Absent, sTrue, sFalse, sYes})
    @@ ("columns[{}][search][value]" :> {sA})

OrderableSlice ==
    ("columns[{}][orderable]" :> {Absent, sTrue, sFalse, sYes})
    @@ ("order[{}][column]" :> {s0, s1})
    @@ ("order[{}][dir]" :> {sDesc})

OrderSlice ==
    ("order[{}][column]" :> {Absent, sNeg1, s0, s1, s9, sX})
    @@ ("order[{}][dir]" :> {Absent, sDesc})

DirectionSlice ==
    ("order[{}][column]" :> {s0, s1})
    @@ ("order[{}][dir]" :> {Absent, sAsc, sDesc, sUp})

PageSlice ==
    ("start" :> {Absent, s0, s1, s2, s9, sX})
    @@ ("length" :> {Absent, s0, s1, s2, sX})
    @@ ("draw" :> {Absent, s7})
    @@ ("columns[{}][search][value]" :> {Absent, sA})

Slices ==
    {SearchSlice, SearchableSlice, OrderableSlice, OrderSlice, DirectionSlice,
     PageSlice}

Requests(n) == UNION {ArgsOver(KeysOf(slice, n), slice) : slice \in Slices}

Init ==
    /\ column_types \in Tables
    /\ dbrows = StoredRows(column_types)
    /\ args = Unset
    /\ status = "idle"
    /\ parsed = Unset
    /\ columns = Unset
    /\ query = Unset
    /\ total = 0
    /\ matching = 0
    /\ rows = Unset
    /\ response = Unset

\* A request arrives and the view instantiates the table.
Request ==
    /\ status = "idle"
    /\ \E a \in Requests(Len(column_types)) : TableInit(a)

Next ==
    \/ Request
    \/ json

Spec == Init /\ [][Next]_vars

(***************************************************************************)
(* Properties                                                              *)
(***************************************************************************)
Built == status \in {"ready", "sent"}

\* The criteria build_query folded onto the base query, in order.
FilterStep == query.where[1]
SearchStep == query.where[2]

OwnSearchValue(i) == Get(args, Format("columns[{}][search][value]", i - 1), sEmpty)
OwnSearchRegex(i) == GetBool(args, Format("columns[{}][search][regex]", i - 1), FALSE)
GlobalValue == Get(args, Key("search[value]"), sEmpty)
GlobalRegex == GetBool(args, Key("search[regex]"), FALSE)

\* C1: the filter predicate of the column at position i is search(v_i, r_i),
\* v_i and r_i being the request's columns[i][search][value] (default '') and
\* columns[i][search][regex] (default false): it depends on the column's own
\* search fields only, not on search[value] / search[regex].
C1_FilterFromOwnSearchFields ==
    Built =>
        \A i \in 1..Len(columns) :
            FilterStep.clauses[i]
                = search(columns[i], OwnSearchValue(i), OwnSearchRegex(i))

\* C2: the global search value and regex flag handed to build_query are the
\* request's search[value] (default '') and search[regex] (default false),
\* whatever the per-column search fields hold.
C2_GlobalSearchFromSearchKeys ==
    Built => parsed.value = GlobalValue /\ parsed.regex = GlobalRegex

\* A column's predicate for a token is a condition that the row meets.
Matches(p, row) == Renders(p) /\ Holds(p, row)

\* C3: a row is in the filtered result only if, for every token of the global
\* search value handed to build_query, the search(token) predicate of at least
\* one searchable column matches the row; so a token that matches no searchable
\* column leaves no row.
C3_EveryTokenMatchesSomeColumn ==
    Built =>
        \A r \in 1..Len(dbrows) :
            Selected(query, dbrows[r]) =>
                \A t \in 1..Len(Tokens(parsed.value)) :
                    \E i \in 1..Len(columns) :
                        /\ columns[i].searchable
                        /\ Matches(search(columns[i], Tokens(parsed.value)[t], FALSE),
                                   dbrows[r])

\* The first order position whose [column] key the request does not carry.
FirstAbsentOrder ==
    LET missing == {i \in 0..(MaxOrder - 1) :
                        Format("order[{}][column]", i) \notin DOMAIN args}
    IN  IF missing = {} THEN MaxOrder
        ELSE CHOOSE i \in missing : \A j \in missing : i <= j

RECURSIVE OrderEntries(_, _)
OrderEntries(i, k) ==
    IF i >= k THEN <<>>
    ELSE LET column == GetInt(args, Format("order[{}][column]", i), 0)
             direction == Get(args, Format("order[{}][dir]", i), sAsc)
         IN  (IF column >= 0 /\ column < Len(column_types)
              THEN <<(<<column_types[column + 1].name, direction>>)>>
              ELSE <<>>)
             \o OrderEntries(i + 1, k)

\* C4: with order[0][column] .. order[k-1][column] present and order[k][column]
\* absent, the order list parse_request returns is, in request order, exactly
\* the entries among the first k whose column index lies in [0, n), each
\* resolved to the declared column name: an out-of-range entry is dropped
\* without ending the scan, and nothing behind the first absent key is applied.
C4_OrderScansToFirstAbsentKey ==
    Built => parsed.order = OrderEntries(0, FirstAbsentOrder)

SearchableColumns == SelectSeq(columns, LAMBDA c : c.searchable)

\* C5 as stated: with the regex flag handed to build_query true, every
\* searchable text column is searched, for each token, with the pattern-match
\* predicate on the raw token; with the flag false, with the case-insensitive
\* substring predicate.
C5_RegexFlagSelectsPredicate ==
    Built =>
        \A t \in 1..Len(Tokens(parsed.value)) :
            \A j \in 1..Len(SearchableColumns) :
                SearchableColumns[j].type = "TextColumn" =>
                    SearchStep.clauses[t].clauses[j]
                        = IF parsed.regex
                          THEN op_regex(SearchableColumns[j].name, Tokens(parsed.value)[t])
                          ELSE ilike(SearchableColumns[j].name,
                                     <<"%">> \o Tokens(parsed.value)[t] \o <<"%">>)

\* C5 as amended: whatever the regex flag handed to build_query is, every
\* searchable text column is searched, for each token, with the
\* case-insensitive substring predicate ('%token%'); the flag is not used by
\* the global search.
C5_GlobalSearchIsSubstringSearch ==
    Built =>
        /\ Len(SearchStep.clauses) = Len(Tokens(parsed.value))
        /\ \A t \in 1..Len(Tokens(parsed.value)) :
            /\ Len(SearchStep.clauses[t].clauses) = Len(SearchableColumns)
            /\ \A j \in 1..Len(SearchableColumns) :
                SearchableColumns[j].type = "TextColumn" =>
                    SearchStep.clauses[t].clauses[j]
                        = ilike(SearchableColumns[j].name,
                                <<"%">> \o Tokens(parsed.value)[t] \o <<"%">>)

\* C5's case: the flag is true and a token is searched in a searchable text column.
C5_Witness ==
    /\ Built
    /\ parsed.regex
    /\ Tokens(parsed.value) # <<>>
    /\ \E j \in 1..Len(SearchableColumns) : SearchableColumns[j].type = "TextColumn"

\* The rows of the base query that the composed query's criteria let through.
ComposedRows == {r \in 1..Len(dbrows) : Selected(query, dbrows[r])}

\* C6: recordsTotal is the row count of the unmodified base query, whatever the
\* request's parameters are, and recordsFiltered is the row count of the
\* composed query (column filters and global search applied) before offset and
\* limit.
C6_RecordCounts ==
    status = "sent" =>
        /\ response.recordsTotal = Len(dbrows)
        /\ response.recordsFiltered = Cardinality(ComposedRows)

\* C6's case: the criteria remove rows and the page holds fewer rows than match.
C6_Witness ==
    /\ status = "sent"
    /\ response.recordsFiltered < response.recordsTotal
    /\ Len(response.data) < response.recordsFiltered

Max(a, b) == IF a > b THEN a ELSE b

\* The composed query's rows in its order, without a window.
OrderedRows == Query_all(query, dbrows)

\* C7: with start >= 0 and length >= 0 the data is the window
\* [start, start + length) of the composed query's ordered rows, of length
\* min(length, max(0, recordsFiltered - start)); start defaults to 0 and
\* length to 50.
C7_DataIsWindow ==
    status = "sent" =>
        /\ Key("start") \notin DOMAIN args => parsed.start = 0
        /\ Key("length") \notin DOMAIN args => parsed.length = 50
        /\ (parsed.start >= 0 /\ parsed.length >= 0) =>
            /\ Len(response.data)
                   = Min(parsed.length, Max(0, response.recordsFiltered - parsed.start))
            /\ \A j \in 1..Len(response.data) :
                   \A c \in 1..Len(column_types) :
                       response.data[j][c]
                           = OrderedRows[parsed.start + j][column_types[c].name]

\* C7's case: a last page cut short by the end of the rows, behind a first page.
C7_Witness ==
    /\ status = "sent"
    /\ parsed.start > 0
    /\ Len(response.data) > 0
    /\ Len(response.data) < parsed.length
    /\ response.recordsFiltered = parsed.start + Len(response.data)

\* C8: for every declared column list and every request, parse_request, the
\* construction of the columns and build_query complete without raising.
C8_NeverRaises == status # "raised"

RECURSIVE OrderKeys(_)
OrderKeys(ord) ==
    IF ord = <<>> THEN <<>>
    ELSE LET c == ColumnNamed(columns, Head(ord)[1])
             single == c.type \in {"TextColumn", "NumericColumn"}
         IN  (IF c.orderable /\ single /\ Head(ord)[2] = sAsc
              THEN <<[col |-> c.name, dir |-> "asc"]>>
              ELSE IF c.orderable /\ single /\ Head(ord)[2] = sDesc
              THEN <<[col |-> c.name, dir |-> "desc"]>>
              ELSE <<>>)
             \o OrderKeys(Tail(ord))

\* C9: the ORDER BY keys are the concatenation, in request order, of
\* order(direction) of the entries whose column is orderable: no key for a
\* column that is not orderable; for a single-backing-column column one
\* ascending key for exactly 'asc', one descending key for exactly 'desc', no
\* key for any other direction.
C9_OrderByKeys == Built => query.order_by = OrderKeys(parsed.order)

\* C9's case: of two entries, the first has an unknown direction and gives no
\* key, the second orders descending.
C9_Witness ==
    /\ Built
    /\ Len(parsed.order) = 2
    /\ parsed.order[1][2] = sUp
    /\ ColumnNamed(columns, parsed.order[1][1]).orderable
    /\ Len(query.order_by) = 1
    /\ query.order_by[1] = [col |-> parsed.order[2][1], dir |-> "desc"]

\* C10: a column whose filter value is empty contributes a filter predicate
\* that passes every row of the base query, a NULL in that column included; so
\* with every filter value empty and an empty global search, recordsFiltered
\* equals recordsTotal.
C10_EmptyFilterPassesEveryRow ==
    Built =>
        /\ \A i \in 1..Len(columns) :
               columns[i].filter_value = sEmpty =>
                   \A r \in 1..Len(dbrows) : Passes(FilterStep.clauses[i], dbrows[r])
        /\ ((\A i \in 1..Len(columns) : columns[i].filter_value = sEmpty)
                /\ parsed.value = sEmpty)
            => matching = total

====
